---- MODULE Spec2Model ----
(***************************************************************************)
(* Model of the VS Code client of fluent-bit-lsp:                          *)
(*   clients/vscode/src/bootstrap.ts  server resolution (bootstrap,        *)
(*                                    getServers, fileExists)              *)
(*   clients/vscode/src/main.ts       activate / deactivate and the        *)
(*                                    module-level client handle           *)
(* Paths are sequences of text pieces; an optional value is the empty      *)
(* sequence (undefined) or a one-element sequence holding the value.       *)
(***************************************************************************)
EXTENDS Naturals, Sequences, FiniteSets, TLC

\* ------------------------------------------------------------ bounds
MaxLen == 3
MaxSessions == 2

\* ------------------------------------------------------------ values
None == <<>>
Some(x) == <<x>>
IsSome(o) == Len(o) = 1
Val(o) == o[1]

Chars == {"~", "/", "b"}

RECURSIVE StringsUpTo(_)
StringsUpTo(n) ==
  IF n = 0 THEN {<<>>}
  ELSE LET S == StringsUpTo(n - 1)
       IN  S \cup {Append(s, c) : s \in {t \in S : Len(t) = n - 1}, c \in Chars}

\* every value the variable __FLB_LSP_SERVER_DEBUG can hold: unset, or a string
AllOverrides == {None} \cup {Some(s) : s \in StringsUpTo(MaxLen)}

\* the values the lifecycle specification draws the variable from
FewOverrides == {None, Some(<<"/", "b">>)}

\* the values the variable SERVER_PATH is drawn from
ServerPaths == {None, Some(<<"/", "srv">>)}

Platforms == {"win32", "linux"}

\* the other variables of process.env: every assignment of a value to some
\* of the names
EnvNames == {"PATH", "RUST_LOG"}
EnvValues == {"v", "debug"}
Environments == UNION {[S -> EnvValues] : S \in SUBSET EnvNames}

\* the environment of the resolution and lifecycle specifications
PlainEnvironment == [n \in {"PATH"} |-> "v"]

\* os.homedir()
homedir(plat) == IF plat = "win32" THEN <<"C:\\Users\\u">> ELSE <<"/home/u">>

\* context.extensionUri
extensionUri == <<"/ext">>

\* the text shown when no binary is available
NoBinaryMessage ==
  "Unfortunately we don't ship binaries for your platform yet. Please build and run the server manually from the source code. Or, please create an issue on repository."

NotAvailableError == "fluent-bit-language-server is not available."

\* ------------------------------------------------------------ state
VARIABLES
  explicitPath,   \* process.env["__FLB_LSP_SERVER_DEBUG"], optional string
  platform,       \* process.platform
  bundledOnDisk,  \* whether stat of the bundled path succeeds
  bpc,            \* position of the running bootstrap call
  serversRet,     \* what getServers returned: optional path
  bootRet,        \* outcome of the last bootstrap call
  statCalls,      \* vscode.workspace.fs.stat calls of the running/last call
  shown,          \* error messages shown by the running/last call
  serverPath,     \* process.env.SERVER_PATH, optional string
  client,         \* module-level handle: 0 (undefined) or a session number
  sessions,       \* every LanguageClient created, in creation order
  deactRet,       \* what the last deactivate call returned
  sent,           \* <<session, document>> notifications sent to servers
  inherited,      \* process.env without the two variables above
  watched,        \* sessions that sent a watched-files notification
  hints           \* the maybeUpdater object of activateInlayHints

rvars == <<explicitPath, platform, bundledOnDisk, bpc, serversRet, bootRet,
           statCalls, shown>>
hvars == <<inherited, watched, hints>>
lvars == <<serverPath, client, sessions, deactRet, sent, hvars>>
vars == <<explicitPath, platform, bundledOnDisk, bpc, serversRet, bootRet,
          statCalls, shown, serverPath, client, sessions, deactRet,
          sent, inherited, watched, hints>>

\* ------------------------------------------------------------ bootstrap.ts
\* a test that only asks whether the variable is set
TruthyWhenSet(o) == IsSome(o)

\* JavaScript truthiness of an optional string
Truthy(o) == IsSome(o) /\ Len(Val(o)) > 0

\* String.prototype.startsWith("~/")
StartsWithTildeSlash(s) == Len(s) >= 2 /\ s[1] = "~" /\ s[2] = "/"

\* slices the whole "~/" off instead of the "~" alone
ExpandHomeSliceTwo(plat, s) == homedir(plat) \o SubSeq(s, 3, Len(s))

\* os.homedir() + explicitPath.slice("~".length)
ExpandHome(plat, s) == homedir(plat) \o SubSeq(s, 2, Len(s))

\* takes every override to be relative to the home directory
ExplicitResultHomeRelative(plat, s) ==
  IF StartsWithTildeSlash(s) THEN ExpandHome(plat, s) ELSE homedir(plat) \o <<"/">> \o s

\* the branch of getServers taken when the override is truthy
ExplicitResult(plat, s) ==
  IF StartsWithTildeSlash(s) THEN ExpandHome(plat, s) ELSE s

\* process.platform === "win32" ? ".exe" : ""
ext(plat) == IF plat = "win32" THEN <<".exe">> ELSE <<>>

\* vscode.Uri.joinPath(context.extensionUri, "server", `fluent-bit-language-server${ext}`)
bundled(plat) ==
  extensionUri \o <<"/", "server", "/", "fluent-bit-language-server">> \o ext(plat)

\* what getServers returns once the existence check has said the file is there:
\* the function ends without a return statement
FoundResult(plat) == None

\* a bootstrap without the test of the path: whatever getServers gave is returned
BootOutcomeUnchecked(ret) ==
  IF IsSome(ret) THEN [tag |-> "return", path |-> Val(ret), error |-> ""]
  ELSE [tag |-> "return", path |-> <<>>, error |-> ""]

\* bootstrap after getServers: throws when the path is falsy, returns it otherwise
BootOutcome(ret) ==
  IF Truthy(ret) THEN [tag |-> "return", path |-> Val(ret), error |-> ""]
  ELSE [tag |-> "throw", path |-> <<>>, error |-> NotAvailableError]

Pending == [tag |-> "pending", path |-> <<>>, error |-> ""]

\* bootstrap is called: getServers runs up to its first await
BootstrapCall ==
  /\ bpc \in {"idle", "done"}
  /\ shown' = <<>>
  /\ bootRet' = Pending
  /\ IF Truthy(explicitPath)
     THEN /\ serversRet' = Some(ExplicitResult(platform, Val(explicitPath)))
          /\ statCalls' = <<>>
          /\ bpc' = "settle"
     ELSE /\ serversRet' = None
          /\ statCalls' = <<bundled(platform)>>
          /\ bpc' = "stat"
  /\ UNCHANGED <<explicitPath, platform, bundledOnDisk, lvars>>

\* the absent file is reported to nobody: undefined is returned at once
StatOutcomeSilent(plat, exists, sh) ==
  IF exists
  THEN [ret |-> None, shown |-> sh, pc |-> "settle"]
  ELSE [ret |-> None, shown |-> sh, pc |-> "settle"]

\* getServers after the existence check: nothing is returned when the file
\* exists; the message is shown when it does not
StatOutcome(plat, exists, sh) ==
  IF exists
  THEN [ret |-> FoundResult(plat), shown |-> sh, pc |-> "settle"]
  ELSE [ret |-> None, shown |-> Append(sh, NoBinaryMessage), pc |-> "message"]

\* fileExists settles: stat(uri).then(() => true, () => false)
StatSettles ==
  /\ bpc = "stat"
  /\ LET o == StatOutcome(platform, bundledOnDisk, shown)
     IN  /\ serversRet' = o.ret
         /\ shown' = o.shown
         /\ bpc' = o.pc
  /\ UNCHANGED <<explicitPath, platform, bundledOnDisk, bootRet, statCalls,
                 lvars>>

\* the user dismisses the error message: getServers returns undefined
MessageDismissed ==
  /\ bpc = "message"
  /\ serversRet' = None
  /\ bpc' = "settle"
  /\ UNCHANGED <<explicitPath, platform, bundledOnDisk, bootRet, statCalls,
                 shown, lvars>>

\* getServers has settled: bootstrap returns the path or throws
BootstrapSettles ==
  /\ bpc = "settle"
  /\ bootRet' = BootOutcome(serversRet)
  /\ bpc' = "done"
  /\ UNCHANGED <<explicitPath, platform, bundledOnDisk, serversRet, statCalls,
                 shown, lvars>>

\* ------------------------------------------------------------ main.ts
\* process.env.SERVER_PATH || "fluent-bit-language-server"
command(sp) == IF Truthy(sp) THEN Val(sp) ELSE <<"fluent-bit-language-server">>

\* the selector with the plain-text entry of the commented-out line switched on
documentSelectorWithPlaintext ==
  {[scheme |-> "file", language |-> "fluent-bit"],
   [scheme |-> "file", language |-> "plaintext"]}

\* clientOptions.documentSelector
documentSelector == {[scheme |-> "file", language |-> "fluent-bit"]}

\* clientOptions.synchronize.fileEvents: createFileSystemWatcher("**/.clientrc")
fileEvents == <<"**", "/", ".clientrc">>

Documents == [scheme : {"file", "untitled"}, language : {"fluent-bit", "plaintext"}]

\* a document is selected when some filter of the selector agrees with it on
\* every field the filter names
Selected(sel, d) == \E f \in sel : f.scheme = d.scheme /\ f.language = d.language

\* what the client options register, in the order the options name them: the
\* document selector, then the file watcher; no hints provider is registered
\* (the call of activateInlayHints is commented out)
subscriptions == <<"documentSelector", "fileWatcher">>

RECURSIVE Reverse(_)
Reverse(q) == IF q = <<>> THEN <<>> ELSE Append(Reverse(Tail(q)), Head(q))

\* the entries the extension adds to the environment of the server
ExtraEnv == [n \in {"RUST_LOG"} |-> "debug"]

\* { ...process.env, RUST_LOG: "debug" }: the later entry wins
env(e) ==
  [n \in DOMAIN e \cup DOMAIN ExtraEnv |->
     IF n \in DOMAIN ExtraEnv THEN ExtraEnv[n] ELSE e[n]]

\* new LanguageClient(...) followed by client.start(): the session is Starting
NewSession(sp, e) ==
  [state |-> "Starting", command |-> command(sp), selector |-> documentSelector,
   watcher |-> fileEvents, stopReq |-> FALSE, proc |-> FALSE, shutdowns |-> 0,
   firstStop |-> "none", stoppedAgain |-> FALSE, activateRet |-> "pending",
   signal |-> "none", subs |-> subscriptions, disposed |-> <<>>,
   env |-> env(e)]

\* the record of the stop calls made on a session: the state the first call
\* found it in, and whether a later call followed
LogStop(r, before) ==
  IF r.firstStop = "none" THEN [r EXCEPT !.firstStop = before.state]
  ELSE [r EXCEPT !.stoppedAgain = TRUE]

\* what of a session a stop may change
Core(r) == <<r.state, r.proc, r.shutdowns, r.stopReq>>

Live(r) == r.state \in {"Starting", "Running"}

\* a stop that sends the shutdown whenever a server process is alive
SessionStopUnguarded(r) ==
  IF r.proc
  THEN [r EXCEPT !.state = "Stopping", !.shutdowns = @ + 1, !.signal = "pending"]
  ELSE IF r.state = "Starting"
       THEN [r EXCEPT !.stopReq = TRUE, !.signal = "pending"]
       ELSE [r EXCEPT !.signal = "done"]

\* a stop that takes a failed session for a running one
SessionStopFailedAsRunning(r) ==
  CASE r.state = "Stopped" -> [r EXCEPT !.signal = "done"]
    [] r.state = "Starting" -> [r EXCEPT !.stopReq = TRUE, !.signal = "pending"]
    [] r.state \in {"Running", "Failed"} ->
         [r EXCEPT !.state = "Stopping", !.shutdowns = @ + 1, !.signal = "pending"]
    [] r.state = "Stopping" -> r

\* SessionManager.stop: nothing to do for a failed or stopped session, deferred
\* while the launch is in flight, a graceful shutdown for a running session, the
\* pending completion again while that shutdown is in flight
\* The completion signal of the call is complete at once in the first case and
\* pending in the others.
SessionStop(r) ==
  CASE r.state \in {"Failed", "Stopped"} -> [r EXCEPT !.signal = "done"]
    [] r.state = "Starting" -> [r EXCEPT !.stopReq = TRUE, !.signal = "pending"]
    [] r.state = "Running" ->
         [r EXCEPT !.state = "Stopping", !.shutdowns = @ + 1, !.signal = "pending"]
    [] r.state = "Stopping" -> r

\* the session a failed launch leaves behind: its subscriptions are released
\* and a stop that was waiting for the launch has nothing left to do
FailedSession(r) ==
  [r EXCEPT !.state = "Failed", !.disposed = Reverse(r.subs),
            !.signal = IF r.stopReq THEN "done" ELSE @]

\* a launch that forgets the stop requested while it was in flight
StartOutcomeForgetsStop(r, ok) ==
  IF ok THEN [r EXCEPT !.state = "Running", !.proc = TRUE]
  ELSE FailedSession(r)

\* SessionManager.start settling: Running after the handshake, Failed on a
\* spawn or handshake error; a stop requested meanwhile is carried out at once
StartOutcome(r, ok) ==
  IF ok
  THEN IF r.stopReq
       THEN [r EXCEPT !.state = "Stopping", !.proc = TRUE, !.shutdowns = @ + 1]
       ELSE [r EXCEPT !.state = "Running", !.proc = TRUE]
  ELSE FailedSession(r)

\* an activate that catches the error of client.start() and completes normally
ActivateOutcomeSwallows(ok) == "resolved"

\* await client.start() in activate, with no handler around it: activate
\* completes when start does and fails with the error start fails with
ActivateOutcome(ok) == IF ok THEN "resolved" ELSE "rejected"

\* a teardown that releases the subscriptions in the order of registration
StopOutcomeInOrder(r) ==
  [r EXCEPT !.state = "Stopped", !.proc = FALSE, !.signal = "done",
            !.disposed = r.subs]

\* the shutdown completes: the connection is closed and the process is gone
\* the subscriptions are released, last registered first, and the completion
\* signal of the stop completes
StopOutcome(r) ==
  [r EXCEPT !.state = "Stopped", !.proc = FALSE, !.signal = "done",
            !.disposed = Reverse(r.subs)]

\* deactivate without the test of the handle: stop is called on undefined
DeactivateUnguarded(c, ss) ==
  IF c = 0 THEN [ret |-> "TypeError", sessions |-> ss]
  ELSE [ret |-> "thenable",
        sessions |-> [ss EXCEPT ![c] = LogStop(SessionStop(@), @)]]

\* deactivate that calls client.stop() and does not return its result
DeactivateForgetsSignal(c, ss) ==
  IF c = 0 THEN [ret |-> "undefined", sessions |-> ss]
  ELSE [ret |-> "undefined",
        sessions |-> [ss EXCEPT ![c] = LogStop(SessionStop(@), @)]]

\* deactivate: undefined when no client was created, client.stop() otherwise
DeactivateResult(c, ss) ==
  IF c = 0 THEN [ret |-> "undefined", sessions |-> ss]
  ELSE [ret |-> "thenable",
        sessions |-> [ss EXCEPT ![c] = LogStop(SessionStop(@), @)]]

\* an activate that starts the client it already holds once more
ActivateRestarts ==
  /\ Len(sessions) < MaxSessions
  /\ IF client = 0
     THEN /\ sessions' = Append(sessions, NewSession(serverPath, inherited))
          /\ client' = Len(sessions) + 1
     ELSE /\ sessions' = [sessions EXCEPT ![client].state = "Starting",
                                          ![client].activateRet = "pending"]
          /\ client' = client
  /\ UNCHANGED <<rvars, hvars, serverPath, deactRet, sent>>

\* activate: builds the options, creates the client, stores it in the
\* module-level handle and starts it
Activate ==
  /\ Len(sessions) < MaxSessions
  /\ sessions' = Append(sessions, NewSession(serverPath, inherited))
  /\ client' = Len(sessions) + 1
  /\ UNCHANGED <<rvars, hvars, serverPath, deactRet, sent>>

\* client.start() settles and with it the activate call awaiting it
StartSettles ==
  \E s \in 1..Len(sessions), ok \in BOOLEAN :
    /\ sessions[s].state = "Starting"
    /\ sessions' = [sessions EXCEPT ![s] =
                      [StartOutcome(@, ok) EXCEPT !.activateRet = ActivateOutcome(ok)]]
    /\ UNCHANGED <<rvars, hvars, serverPath, client, deactRet, sent>>

Deactivate ==
  /\ LET o == DeactivateResult(client, sessions)
     IN  /\ deactRet' = o.ret
         /\ sessions' = o.sessions
  /\ UNCHANGED <<rvars, hvars, serverPath, client, sent>>

\* the shutdown request of a stopping session completes
StopSettles ==
  \E s \in 1..Len(sessions) :
    /\ sessions[s].state = "Stopping"
    /\ sessions' = [sessions EXCEPT ![s] = StopOutcome(@)]
    /\ UNCHANGED <<rvars, hvars, serverPath, client, deactRet, sent>>

\* the host reports an event on a document: a running session whose selector
\* selects the document notifies its server
DocumentEvent ==
  \E s \in 1..Len(sessions), d \in Documents :
    /\ sessions[s].state = "Running"
    /\ sent' = IF Selected(sessions[s].selector, d) THEN sent \cup {<<s, d>>} ELSE sent
    /\ UNCHANGED <<rvars, hvars, serverPath, client, sessions, deactRet>>

\* the host reports a change of a file matching the watcher's pattern: a
\* running session sends the synchronization signal to its server
WatchedFileEvent ==
  \E s \in 1..Len(sessions) :
    /\ sessions[s].state = "Running"
    /\ watched' = watched \cup {s}
    /\ UNCHANGED <<rvars, serverPath, client, sessions, deactRet, sent, inherited,
                   hints>>

\* ------------------------------------------------------------ activateInlayHints
\* no maybeUpdater object exists before activateInlayHints is called
NoUpdater ==
  [created |-> FALSE, listening |-> FALSE, hintsProvider |-> "null",
   emitter |-> "none", registered |-> 0, providerDisposals |-> 0,
   disposeCalls |-> "none", raised |-> FALSE, handled |-> FALSE]

\* the object literal: hintsProvider null, a new EventEmitter
NewUpdater ==
  [NoUpdater EXCEPT !.created = TRUE, !.emitter = "open"]

\* dispose without the optional chaining: dispose is called on null
disposeUnguarded(h) ==
  IF h.hintsProvider = "null"
  THEN [h EXCEPT !.raised = TRUE,
                 !.disposeCalls = IF @ = "none" THEN "once" ELSE "again"]
  ELSE [h EXCEPT !.providerDisposals = @ + 1, !.hintsProvider = "null",
                 !.emitter = "disposed",
                 !.disposeCalls = IF @ = "none" THEN "once" ELSE "again"]

\* dispose: hintsProvider?.dispose(), hintsProvider = null, emitter.dispose()
dispose(h) ==
  [h EXCEPT !.providerDisposals = IF h.hintsProvider = "null" THEN @ ELSE @ + 1,
            !.hintsProvider = "null",
            !.emitter = "disposed",
            !.disposeCalls = IF @ = "none" THEN "once" ELSE "again"]

\* onConfigChange: this.dispose(), then the emitter's event is read and
\* nothing is done with it
onConfigChange(h) == [dispose(h) EXCEPT !.handled = TRUE]

\* onDidChangeTextDocument: the body holds comments only
onDidChangeTextDocument(h) == h

\* activateInlayHints: creates the object, registers the two listeners and
\* calls onConfigChange once
ActivateInlayHints ==
  /\ ~hints.created
  /\ hints' = [onConfigChange(NewUpdater) EXCEPT !.listening = TRUE]
  /\ UNCHANGED <<rvars, serverPath, client, sessions, deactRet, sent, inherited,
                 watched>>

\* workspace.onDidChangeConfiguration fires
ConfigChange ==
  /\ hints.listening
  /\ hints' = onConfigChange(hints)
  /\ UNCHANGED <<rvars, serverPath, client, sessions, deactRet, sent, inherited,
                 watched>>

\* workspace.onDidChangeTextDocument fires
TextDocumentChange ==
  /\ hints.listening
  /\ hints' = onDidChangeTextDocument(hints)
  /\ UNCHANGED <<rvars, serverPath, client, sessions, deactRet, sent, inherited,
                 watched>>

\* ------------------------------------------------------------ specifications
InitResolution ==
  /\ bpc = "idle"
  /\ serversRet = None
  /\ bootRet = Pending
  /\ statCalls = <<>>
  /\ shown = <<>>

InitLifecycle ==
  /\ client = 0
  /\ sessions = <<>>
  /\ deactRet = "none"
  /\ sent = {}
  /\ watched = {}
  /\ hints = NoUpdater

InitResolve ==
  /\ explicitPath \in AllOverrides
  /\ platform \in Platforms
  /\ bundledOnDisk \in BOOLEAN
  /\ serverPath = None
  /\ inherited = PlainEnvironment
  /\ InitResolution
  /\ InitLifecycle

NextResolve ==
  \/ BootstrapCall
  \/ StatSettles
  \/ MessageDismissed
  \/ BootstrapSettles

SpecResolve == InitResolve /\ [][NextResolve]_vars

Init ==
  /\ explicitPath \in FewOverrides
  /\ platform \in Platforms
  /\ bundledOnDisk \in BOOLEAN
  /\ serverPath \in ServerPaths
  /\ inherited = PlainEnvironment
  /\ InitResolution
  /\ InitLifecycle

Next ==
  \/ BootstrapCall
  \/ StatSettles
  \/ MessageDismissed
  \/ BootstrapSettles
  \/ Activate
  \/ StartSettles
  \/ Deactivate
  \/ StopSettles
  \/ DocumentEvent

Spec == Init /\ [][Next]_vars

InitSession ==
  /\ explicitPath = None
  /\ platform = "linux"
  /\ bundledOnDisk = FALSE
  /\ serverPath = None
  /\ inherited \in Environments
  /\ InitResolution
  /\ InitLifecycle

NextSession ==
  \/ Activate
  \/ StartSettles
  \/ Deactivate
  \/ StopSettles
  \/ DocumentEvent
  \/ WatchedFileEvent
  \/ ActivateInlayHints
  \/ ConfigChange
  \/ TextDocumentChange

SpecSession == InitSession /\ [][NextSession]_vars

\* ------------------------------------------------------------ properties
Settled == bpc \in {"settle", "done"}
Sessions == 1..Len(sessions)

\* C1: with no override configured and the bundled file on disk, getServers
\* returns the bundled path (".exe" appended on win32 only) and bootstrap
\* returns that same path, on every platform.
C1_BundledFound ==
  (explicitPath = None /\ bundledOnDisk /\ bpc = "done")
    => /\ serversRet = Some(bundled(platform))
       /\ bootRet.tag = "return"
       /\ bootRet.path = bundled(platform)

\* C2: a session exists only once resolution has settled, and settled with a
\* path; when resolution gave no path, no session was started.
C2_StartOnlyAfterFound ==
  sessions # <<>> => (bpc = "done" /\ bootRet.tag = "return")

C4_OverrideWins ==
  (Truthy(explicitPath) /\ Settled)
    => /\ IsSome(serversRet)
       /\ statCalls = <<>>
       /\ shown = <<>>
       /\ (Val(explicitPath)[1] = "/" => serversRet = explicitPath)
       /\ (bpc = "done" /\ Val(explicitPath)[1] = "/")
            => (bootRet.tag = "return" /\ bootRet.path = Val(explicitPath))

C4_Witness ==
  /\ explicitPath = Some(<<"/", "b">>)
  /\ bundledOnDisk
  /\ platform = "win32"
  /\ bpc = "done"
  /\ bootRet.path = <<"/", "b">>

\* C5 as stated: every value of the override variable that starts with "~/"
\* comes back as the home directory followed by the value from its "/" on, and
\* every other value comes back verbatim.
C5_EveryValue ==
  (IsSome(explicitPath) /\ Settled)
    => serversRet =
         IF StartsWithTildeSlash(Val(explicitPath))
         THEN Some(homedir(platform) \o Tail(Val(explicitPath)))
         ELSE explicitPath

\* C5 amended: every non-empty value of the override variable that starts
\* with "~/" comes back as the home directory followed by the value from its
\* "/" on, and every other non-empty value comes back verbatim.
C5_NonEmptyValue ==
  (IsSome(explicitPath) /\ Val(explicitPath) # <<>> /\ Settled)
    => serversRet =
         IF StartsWithTildeSlash(Val(explicitPath))
         THEN Some(homedir(platform) \o Tail(Val(explicitPath)))
         ELSE explicitPath

C5_Witness ==
  /\ explicitPath = Some(<<"~", "/", "b">>)
  /\ platform = "linux"
  /\ bpc = "done"
  /\ bootRet.path = <<"/home/u", "/", "b">>

\* C6: a deactivate call made while no client was ever created returns
\* undefined, raises nothing and changes nothing else.
C6_DeactivateBeforeActivate ==
  [][(client = 0 /\ deactRet' # deactRet)
       => (deactRet' = "undefined" /\ client' = 0 /\ sessions' = sessions
           /\ sent' = sent /\ rvars' = rvars /\ hvars' = hvars)]_vars

C6_Witness == client = 0 /\ sessions = <<>> /\ deactRet = "undefined"

\* C7: once stop has been called on a session that was Running, a further
\* stop call on it changes nothing of the session, sends no further shutdown
\* and returns a completion signal instead of raising.
C7_SecondStopNoOp ==
  [][\A s \in Sessions :
       sessions[s].firstStop = "Running"
         => /\ sessions'[s].shutdowns = 1
            /\ (~sessions[s].stoppedAgain /\ sessions'[s].stoppedAgain)
                 => (Core(sessions'[s]) = Core(sessions[s]) /\ deactRet' = "thenable")]_vars

C7_Witness ==
  \E s \in Sessions :
    /\ sessions[s].firstStop = "Running"
    /\ sessions[s].stoppedAgain
    /\ sessions[s].state = "Stopped"
    /\ sessions[s].shutdowns = 1

\* C8: when stop was called on a session whose launch was still in flight,
\* then once the launch and the stop have both completed no server process of
\* that session is left running.
C8_NoOrphanAfterEarlyStop ==
  \A s \in Sessions :
    (/\ sessions[s].firstStop = "Starting"
     /\ sessions[s].state \notin {"Starting", "Stopping"})
      => (sessions[s].state \in {"Stopped", "Failed"} /\ ~sessions[s].proc)

C8_Witness ==
  \E s \in Sessions :
    /\ sessions[s].firstStop = "Starting"
    /\ sessions[s].state = "Stopped"
    /\ sessions[s].shutdowns = 1
    /\ sessions[s].activateRet = "resolved"

\* C9: at most one session is Starting or Running at any time.
C9_AtMostOneLiveSession ==
  Cardinality({s \in Sessions : Live(sessions[s])}) <= 1

StopLog(r) == <<r.firstStop, r.stoppedAgain>>

\* C11: a session whose launch failed is Failed, never had a server process,
\* and the activate call that started it has failed with the launch error
\* instead of completing; only a failed launch makes activate fail.
C11_LaunchFailurePropagates ==
  \A s \in Sessions :
    /\ sessions[s].state = "Failed"
         => (sessions[s].activateRet = "rejected" /\ ~sessions[s].proc)
    /\ sessions[s].activateRet = "rejected" => sessions[s].state = "Failed"
    /\ sessions[s].state = "Starting" => sessions[s].activateRet = "pending"

C11_Witness ==
  \E s \in Sessions :
    sessions[s].state = "Failed" /\ sessions[s].activateRet = "rejected"

\* C12: a stop call on a Failed session changes nothing of the session, sends
\* no shutdown, and returns a completion signal that is already complete
\* instead of raising.
C12_StopOnFailedNoOp ==
  [][\A s \in Sessions :
       sessions[s].state = "Failed"
         => /\ Core(sessions'[s]) = Core(sessions[s])
            /\ sessions'[s].shutdowns = 0
            /\ StopLog(sessions'[s]) # StopLog(sessions[s])
                 => (deactRet' = "thenable" /\ sessions'[s].signal = "done")]_vars

C12_Witness ==
  \E s \in Sessions :
    /\ sessions[s].state = "Failed"
    /\ sessions[s].firstStop = "Failed"
    /\ sessions[s].stoppedAgain
    /\ sessions[s].shutdowns = 0

C15_ReverseDisposal ==
  \A s \in Sessions :
    LET r == sessions[s]
        n == Len(r.subs)
    IN  /\ r.state \in {"Starting", "Running", "Stopping"} => r.disposed = <<>>
        /\ r.firstStop = "Running" => r.shutdowns = 1
        /\ r.state = "Stopped"
             => /\ r.shutdowns = 1
                /\ Len(r.disposed) = n
                /\ \A i \in 1..n : r.disposed[i] = r.subs[n + 1 - i]

C15_Witness ==
  \E s \in Sessions :
    /\ sessions[s].firstStop = "Running"
    /\ sessions[s].state = "Stopped"
    /\ sessions[s].disposed = <<"fileWatcher", "documentSelector">>

\* C19: a bootstrap call that has settled has either returned a non-empty path
\* or failed with the error 'fluent-bit-language-server is not available.',
\* whatever the override, the platform and the bundled file.
C19_PathOrNotAvailable ==
  bpc = "done"
    => \/ bootRet.tag = "return" /\ Len(bootRet.path) > 0 /\ bootRet.error = ""
       \/ bootRet.tag = "throw" /\ bootRet.error = NotAvailableError
                                /\ bootRet.path = <<>>

C19_Witness ==
  /\ bpc = "done"
  /\ explicitPath = Some(<<>>)
  /\ bootRet.tag = "throw"
  /\ bootRet.error = NotAvailableError

\* C20: with the override variable set to the empty string, resolution goes
\* the way it goes with the variable unset: the bundled path of the platform
\* is checked for existence once, the message is shown exactly when the file
\* is absent, and getServers and bootstrap end as they do with no override.
C20_EmptyOverrideAsUnset ==
  (explicitPath \in {None, Some(<<>>)} /\ bpc = "done")
    => /\ statCalls =
            <<<<"/ext", "/", "server", "/", "fluent-bit-language-server">>
              \o (IF platform = "win32" THEN <<".exe">> ELSE <<>>)>>
       /\ shown = (IF bundledOnDisk THEN <<>> ELSE <<NoBinaryMessage>>)
       /\ serversRet = None
       /\ bootRet = [tag |-> "throw", path |-> <<>>, error |-> NotAvailableError]

C20_Witness ==
  /\ explicitPath = Some(<<>>)
  /\ bpc = "done"
  /\ statCalls = <<bundled(platform)>>
  /\ ~bundledOnDisk
  /\ shown = <<NoBinaryMessage>>

\* C14: the environment handed to the server holds every variable of the
\* inherited environment with its inherited value.
C14_InheritedEnvironmentKept ==
  \A s \in Sessions :
    \A n \in DOMAIN inherited :
      n \in DOMAIN sessions[s].env /\ sessions[s].env[n] = inherited[n]

\* C16: once onConfigChange has run, a hints provider is registered and the
\* emitter of update events is usable.
C16_FreshProviderAfterConfigChange ==
  hints.handled => (hints.hintsProvider # "null" /\ hints.emitter = "open")

\* C17: however often dispose has run, it has raised nothing, it has left no
\* provider registered and the emitter disposed, and the providers' own
\* dispose has been called no more often than providers were registered.
C17_DisposeTolerant ==
  hints.created
    => /\ ~hints.raised
       /\ hints.disposeCalls # "none"
            => (hints.hintsProvider = "null" /\ hints.emitter = "disposed")
       /\ hints.providerDisposals <= hints.registered

C17_Witness ==
  hints.disposeCalls = "again" /\ ~hints.raised /\ hints.emitter = "disposed"

\* C18: a session that is Stopped or Failed stays in that state in every
\* step: no deactivate call, document event, file event or activation moves
\* it back to Starting or Running.
C18_TerminalStatesAbsorbing ==
  [][\A s \in Sessions :
       sessions[s].state \in {"Stopped", "Failed"}
         => sessions'[s].state = sessions[s].state]_vars

C18_Witness ==
  /\ Len(sessions) = MaxSessions
  /\ sessions[1].state = "Stopped"
  /\ sessions[1].stoppedAgain
  /\ sessions[MaxSessions].state = "Running"
  /\ MaxSessions \in watched
====
